---- MODULE Spec2Model ----
(***************************************************************************)
(* State-machine model of the Flask microservices of this repository:     *)
(*   - shared/utils/circuit_breaker.py     (CircuitBreaker)                *)
(*   - shared/utils/health_check.py        (HealthCheckMixin, GET /health) *)
(*   - shared/utils/environment.py         (get_environment_config)        *)
(*   - job-matcher  api/job_matcher/match.py, core/.../match_job_to_users  *)
(*   - job-extractor api/job_extractor/extract.py, utils/supabase/bucket   *)
(*   - resume-parser api/hcp/user_profile.py, core/user_profile/           *)
(*     extract_profile_from_resume.py, models/user_profile/model.py,       *)
(*     utils/openai/prompting.py                                           *)
(*   - job-enricher  api/job_enricher/enrich.py, core/.../enrich_job_data  *)
(* The services are independent processes; the variable `component` says   *)
(* which of them a behaviour exercises, and every other component's        *)
(* variables keep their initial value in that behaviour.                   *)
(***************************************************************************)
EXTENDS Integers, Sequences, FiniteSets, TLC

VARIABLES
    component,
    \* ---- CircuitBreaker (shared/utils/circuit_breaker.py)
    failure_threshold,      \* self.failure_threshold
    recovery_timeout,       \* self.recovery_timeout
    cb_state,               \* self._state
    cb_failure_count,       \* self._failure_count
    cb_last_failure_time,   \* self._last_failure_time: <<>> is None, <<t>> a time
    now,                    \* time.time()
    cb_pc,                  \* per caller thread: position inside call()
    cb_trial,               \* per caller thread: admitted while HALF_OPEN
    cb_result,              \* per caller thread: how its last call() ended
    cb_streak,              \* history: expected failures since the last success or reset()
    \* ---- HealthCheckMixin (shared/utils/health_check.py)
    hc_phase,               \* "setup" while checks are registered, then "serving"
    health_checks,          \* self.health_checks: the registered checks' names, in order
    hc_pc,                  \* position inside the GET /health handler
    checks_passed,          \* the handler's checks_passed list
    checks_failed,          \* the handler's checks_failed list
    hc_outcomes,            \* history: what each check did in this request, in order
    hc_response,            \* <<>>, or <<the response of the last GET /health>>
    \* ---- get_environment_config (shared/utils/environment.py)
    DEFAULT_ENVIRONMENT,    \* the process's environment variable: <<>> unset, <<s>> set
    env_context,            \* env_context (a ContextVar) as each worker thread sees it
    env_call,               \* <<>>, or <<the last call: its inputs and its result>>
    \* ---- job-extractor POST /extract-from-file (api/job_extractor/extract.py)
    HAS_SUPABASE,           \* _HAS_SUPABASE: the Supabase utilities were importable
    ex_credentials,         \* SUPABASE_URL and SUPABASE_PRIVATE_SERVICE_ROLE_KEY are set
    ex_buckets,             \* storage: list_buckets() raises (<<>>) or gives <<the names>>
    ex_storage,             \* storage: what download(path) does in each bucket
    ex_pc,                  \* position inside the handler
    ex_request,             \* the request being handled
    ex_blob,                \* what download_file returned in this request
    ex_exception,           \* the exception raised inside the try block
    ex_status,              \* 0, or the HTTP status of the response
    \* ---- job-matcher POST /match and POST /match-user (api/job_matcher/match.py)
    get_json_raises,        \* the installed Flask's get_json() raises on a non-JSON body
    api_pc,                 \* per request: position inside the handler
    api_request,            \* per request: endpoint, body, id, flag, header
    api_response,           \* per request: 0, or the HTTP status answered
    api_threads,            \* per request: the threads it started, in order
    api_error,              \* per request: the "error" field of the response, "" if none
    api_queries,            \* per request: the database queries its handler has made
    \* ---- job-matcher background runs (core/job_matcher/match_job_to_users.py)
    matching_status,        \* user_profile.matching_status of each user
    match_table,            \* the match table: per (user, job), how often its row was written
    run,                    \* per background thread: its arguments and local state
    \* ---- resume-parser POST /user-profile (api/hcp/user_profile.py)
    rp_url,                 \* SUPABASE_URL is set
    rp_key,                 \* SUPABASE_PRIVATE_SERVICE_ROLE_KEY is set
    rp_buckets,             \* storage: list_buckets() raises (<<>>) or gives <<the names>>
    rp_storage,             \* storage: what download(path) does in each bucket
    rp_pc,                  \* position inside the handler
    rp_request,             \* the request being handled
    rp_blob,                \* what download_file returned in this request, "unset" if not called
    rp_outcome,             \* how extract_profile_from_resume ended: "returns" or its exception
    rp_status,              \* 0, or the HTTP status of the response
    \* ---- job-enricher POST /enrich (api/job_enricher/enrich.py)
    en_pc,                  \* position inside the handler
    en_request,             \* request_data: the payload object of the request
    en_validated,           \* validated_job_data: <<>>, or <<the deep copy of the payload>>
    en_reply,               \* <<>>, or <<what the model answered in this request>>
    en_outcome,             \* how enrich_job_data ended: "returns" or its exception
    en_enriched,            \* <<>>, or <<enriched_data, the value enrich_job_data returned>>
    en_status,              \* 0, or the HTTP status of the response
    en_body,                \* <<>>, or <<the keys of the JSON object sent with status 200>>
    \* ---- resume-parser about_extract and send_prompt (models/user_profile/model.py)
    ae_api,                 \* what client.chat.completions.create does in this call
    ae_content,             \* response.choices[0].message.content, as a sequence of tokens
    ae_pc,                  \* position inside about_extract
    ae_extract,             \* what send_prompt returned
    ae_result,              \* what about_extract returned
    \* ---- resume-parser head-shot fields (core/user_profile/extract_profile_from_resume.py)
    ph_reply,               \* what the vision model call does: it raises, or its reply
    ph_headshot,            \* the head-shot the local pipeline finds in the file: <<>> or <<s>>
    ph_pc,                  \* position inside extract_profile_from_resume, after the download
    raw_openai_data,        \* the dictionary of that name
    photo_b64               \* the local variable of that name: <<>> is None, <<s>> a string

cbVars == <<failure_threshold, recovery_timeout, cb_state, cb_failure_count,
            cb_last_failure_time, now, cb_pc, cb_trial, cb_result, cb_streak>>

hcVars == <<hc_phase, health_checks, hc_pc, checks_passed, checks_failed,
            hc_outcomes, hc_response>>

envVars == <<DEFAULT_ENVIRONMENT, env_context, env_call>>

exVars == <<HAS_SUPABASE, ex_credentials, ex_buckets, ex_storage, ex_pc, ex_request,
            ex_blob, ex_exception, ex_status>>

apiVars == <<get_json_raises, api_pc, api_request, api_response, api_threads,
             api_error, api_queries>>

runVars == <<matching_status, match_table, run>>

rpVars == <<rp_url, rp_key, rp_buckets, rp_storage, rp_pc, rp_request, rp_blob,
            rp_outcome, rp_status>>

enVars == <<en_pc, en_request, en_validated, en_reply, en_outcome, en_enriched,
            en_status, en_body>>

aeVars == <<ae_api, ae_content, ae_pc, ae_extract, ae_result>>

phVars == <<ph_reply, ph_headshot, ph_pc, raw_openai_data, photo_b64>>

vars == <<component, cbVars, hcVars, envVars, exVars, apiVars, runVars,
          rpVars,
          enVars,
          aeVars,
          phVars>>

cbOthers == <<component, hcVars, envVars, exVars, apiVars, runVars,
              rpVars,
              enVars,
              aeVars,
              phVars>>
hcOthers == <<component, cbVars, envVars, exVars, apiVars, runVars,
              rpVars,
              enVars,
              aeVars,
              phVars>>
envOthers == <<component, cbVars, hcVars, exVars, apiVars, runVars,
               rpVars,
               enVars,
               aeVars,
               phVars>>
exOthers == <<component, cbVars, hcVars, envVars, apiVars, runVars,
              rpVars,
              enVars,
              aeVars,
              phVars>>
apiOthers == <<component, cbVars, hcVars, envVars, exVars, runVars,
               rpVars,
               enVars,
               aeVars,
               phVars>>
runOthers == <<component, cbVars, hcVars, envVars, exVars, apiVars,
               rpVars,
               enVars,
               aeVars,
               phVars>>
rpOthers == <<component, cbVars, hcVars, envVars, exVars, apiVars, runVars,
              enVars,
              aeVars,
              phVars>>
enOthers == <<component, cbVars, hcVars, envVars, exVars, apiVars, runVars, rpVars,
              aeVars,
              phVars>>
aeOthers == <<component, cbVars, hcVars, envVars, exVars, apiVars, runVars, rpVars,
              enVars,
              phVars>>
phOthers == <<component, cbVars, hcVars, envVars, exVars, apiVars, runVars, rpVars,
              enVars, aeVars>>

(***************************************************************************)
(* Bounds of the model                                                     *)
(***************************************************************************)
NumCallers == 2
MaxThreshold == 2
MaxRecovery == 2
MaxTime == 3
MaxChecks == 3
NumWorkers == 2
NumRequests == 1
NumRuns == 2
NumUsers == 1
NumJobs == 2
MaxSpecialties == 1
MaxContent == 4

(***************************************************************************)
(* CircuitBreaker                                                          *)
(***************************************************************************)
CLOSED == "closed"
OPEN == "open"
HALF_OPEN == "half_open"

Callers == 1..NumCallers

\* _should_attempt_reset without the test of the time elapsed
should_attempt_reset_always ==
    cb_last_failure_time # <<>>

should_attempt_reset ==
    /\ cb_last_failure_time # <<>>
    /\ now - cb_last_failure_time[1] >= recovery_timeout

\* the `state` property: the value it returns, which it also stores in _state
state_property ==
    IF cb_state = OPEN /\ should_attempt_reset THEN HALF_OPEN ELSE cb_state

is_open == state_property = OPEN

\* the threshold test of _on_failure, off by one
trips_strictly_above(count) == count > failure_threshold

trips(count) == count >= failure_threshold

CBInit ==
    /\ failure_threshold \in 1..MaxThreshold
    /\ recovery_timeout \in 1..MaxRecovery
    /\ cb_state = CLOSED
    /\ cb_failure_count = 0
    /\ cb_last_failure_time = <<>>
    /\ now = 0
    /\ cb_pc = [c \in Callers |-> "idle"]
    /\ cb_trial = [c \in Callers |-> FALSE]
    /\ cb_result = [c \in Callers |-> "none"]
    /\ cb_streak = 0

\* the breaker of a behaviour that exercises another component
CBIdle ==
    /\ failure_threshold = 1
    /\ recovery_timeout = 1
    /\ cb_state = CLOSED
    /\ cb_failure_count = 0
    /\ cb_last_failure_time = <<>>
    /\ now = 0
    /\ cb_pc = [c \in Callers |-> "idle"]
    /\ cb_trial = [c \in Callers |-> FALSE]
    /\ cb_result = [c \in Callers |-> "none"]
    /\ cb_streak = 0

\* call(): the is_open test (under the lock) and, when it passes, the start of func
call(c) ==
    /\ component = "circuit_breaker"
    /\ cb_pc[c] = "idle"
    /\ cb_state' = state_property
    /\ IF is_open
         THEN /\ cb_result' = [cb_result EXCEPT ![c] = "CircuitBreakerError"]
              /\ UNCHANGED <<cb_pc, cb_trial>>
         ELSE /\ cb_pc' = [cb_pc EXCEPT ![c] = "func"]
              /\ cb_trial' = [cb_trial EXCEPT ![c] = (state_property = HALF_OPEN)]
              /\ cb_result' = [cb_result EXCEPT ![c] = "pending"]
    /\ UNCHANGED <<failure_threshold, recovery_timeout, cb_failure_count,
                   cb_last_failure_time, now, cb_streak>>

\* func(*args, **kwargs) returns, or raises expected_exception, or raises another exception
func_returns(c) ==
    /\ component = "circuit_breaker"
    /\ cb_pc[c] = "func"
    /\ \E outcome \in {"return", "expected_exception", "other_exception"} :
         IF outcome = "return"
           THEN /\ cb_pc' = [cb_pc EXCEPT ![c] = "on_success"]
                /\ UNCHANGED <<cb_result, cb_trial>>
           ELSE IF outcome = "expected_exception"
             THEN /\ cb_pc' = [cb_pc EXCEPT ![c] = "on_failure"]
                  /\ UNCHANGED <<cb_result, cb_trial>>
             ELSE /\ cb_pc' = [cb_pc EXCEPT ![c] = "idle"]
                  /\ cb_result' = [cb_result EXCEPT ![c] = "other_exception"]
                  /\ cb_trial' = [cb_trial EXCEPT ![c] = FALSE]
    /\ UNCHANGED <<failure_threshold, recovery_timeout, cb_state, cb_failure_count,
                   cb_last_failure_time, now, cb_streak>>

on_success(c) ==
    /\ component = "circuit_breaker"
    /\ cb_pc[c] = "on_success"
    /\ cb_failure_count' = 0
    /\ cb_state' = CLOSED
    /\ cb_streak' = 0
    /\ cb_pc' = [cb_pc EXCEPT ![c] = "idle"]
    /\ cb_trial' = [cb_trial EXCEPT ![c] = FALSE]
    /\ cb_result' = [cb_result EXCEPT ![c] = "returned"]
    /\ UNCHANGED <<failure_threshold, recovery_timeout, cb_last_failure_time, now>>

on_failure(c) ==
    /\ component = "circuit_breaker"
    /\ cb_pc[c] = "on_failure"
    /\ cb_failure_count' = cb_failure_count + 1
    /\ cb_last_failure_time' = <<now>>
    /\ cb_state' = IF trips(cb_failure_count + 1) THEN OPEN ELSE cb_state
    /\ cb_streak' = cb_streak + 1
    /\ cb_pc' = [cb_pc EXCEPT ![c] = "idle"]
    /\ cb_trial' = [cb_trial EXCEPT ![c] = FALSE]
    /\ cb_result' = [cb_result EXCEPT ![c] = "expected_exception"]
    /\ UNCHANGED <<failure_threshold, recovery_timeout, now>>

reset ==
    /\ component = "circuit_breaker"
    /\ cb_failure_count' = 0
    /\ cb_last_failure_time' = <<>>
    /\ cb_state' = CLOSED
    /\ cb_streak' = 0
    /\ UNCHANGED <<failure_threshold, recovery_timeout, now, cb_pc, cb_trial, cb_result>>

\* get_status / is_closed: a read of the `state` property outside call()
get_status ==
    /\ component = "circuit_breaker"
    /\ cb_state' = state_property
    /\ UNCHANGED <<failure_threshold, recovery_timeout, cb_failure_count,
                   cb_last_failure_time, now, cb_pc, cb_trial, cb_result, cb_streak>>

\* the clock advances
Tick ==
    /\ component = "circuit_breaker"
    /\ now < MaxTime
    /\ now' = now + 1
    /\ UNCHANGED <<failure_threshold, recovery_timeout, cb_state, cb_failure_count,
                   cb_last_failure_time, cb_pc, cb_trial, cb_result, cb_streak>>

CBNext ==
    \/ \E c \in Callers : call(c) /\ UNCHANGED cbOthers
    \/ \E c \in Callers : func_returns(c) /\ UNCHANGED cbOthers
    \/ \E c \in Callers : on_success(c) /\ UNCHANGED cbOthers
    \/ \E c \in Callers : on_failure(c) /\ UNCHANGED cbOthers
    \/ reset /\ UNCHANGED cbOthers
    \/ get_status /\ UNCHANGED cbOthers
    \/ Tick /\ UNCHANGED cbOthers


(***************************************************************************)
(* HealthCheckMixin: add_health_check and the GET /health handler          *)
(***************************************************************************)
CheckNames == {"database", "redis"}

\* what a registered check function does when the handler calls it: it returns a
\* dict whose 'healthy' is truthy, or one whose 'healthy' is falsy or missing, or raises
CheckOutcomes == {"healthy", "unhealthy", "raises"}

HCIdle ==
    /\ hc_phase = "setup"
    /\ health_checks = <<>>
    /\ hc_pc = "idle"
    /\ checks_passed = <<>>
    /\ checks_failed = <<>>
    /\ hc_outcomes = <<>>
    /\ hc_response = <<>>

add_health_check(name) ==
    /\ component = "health_check"
    /\ hc_phase = "setup"
    /\ Len(health_checks) < MaxChecks
    /\ health_checks' = Append(health_checks, name)
    /\ UNCHANGED <<hc_phase, hc_pc, checks_passed, checks_failed, hc_outcomes, hc_response>>

create_health_endpoint ==
    /\ component = "health_check"
    /\ hc_phase = "setup"
    /\ hc_phase' = "serving"
    /\ UNCHANGED <<health_checks, hc_pc, checks_passed, checks_failed, hc_outcomes,
                   hc_response>>

\* a GET /health request enters the handler: checks_passed = [], checks_failed = []
health_check_begin ==
    /\ component = "health_check"
    /\ hc_phase = "serving"
    /\ hc_pc = "idle"
    /\ hc_pc' = "loop"
    /\ checks_passed' = <<>>
    /\ checks_failed' = <<>>
    /\ hc_outcomes' = <<>>
    /\ hc_response' = <<>>
    /\ UNCHANGED <<hc_phase, health_checks>>

\* the entry the loop body appends for check `name` doing `outcome`
check_entry(name, outcome) ==
    [name |-> name,
     status |-> IF outcome = "healthy" THEN "healthy"
                ELSE IF outcome = "unhealthy" THEN "unhealthy" ELSE "error"]

\* one iteration of `for health_check in self.health_checks`
run_check ==
    /\ component = "health_check"
    /\ hc_pc = "loop"
    /\ Len(hc_outcomes) < Len(health_checks)
    /\ \E outcome \in CheckOutcomes :
         LET name == health_checks[Len(hc_outcomes) + 1] IN
         /\ hc_outcomes' = Append(hc_outcomes, outcome)
         /\ IF outcome = "healthy"
              THEN /\ checks_passed' = Append(checks_passed, check_entry(name, outcome))
                   /\ UNCHANGED checks_failed
              ELSE /\ checks_failed' = Append(checks_failed, check_entry(name, outcome))
                   /\ UNCHANGED checks_passed
    /\ UNCHANGED <<hc_phase, health_checks, hc_pc, hc_response>>

\* health_score >= 0.5 read as health_score > 0.5
score_above_half(passed, total) == total > 0 /\ 2 * passed > total

\* health_score == 1.0, with health_score = passed / total if total > 0 else 0
score_is_one(passed, total) == total > 0 /\ passed = total

\* health_score >= 0.5: passed / total >= 0.5 exactly when 2 * passed >= total
score_at_least_half(passed, total) == total > 0 /\ 2 * passed >= total

overall_status(passed, total) ==
    IF score_is_one(passed, total) THEN [status |-> "healthy", status_code |-> 200]
    ELSE IF score_at_least_half(passed, total)
      THEN [status |-> "degraded", status_code |-> 200]
      ELSE [status |-> "unhealthy", status_code |-> 503]

\* the loop is over: compute the overall status and answer
health_check_respond ==
    /\ component = "health_check"
    /\ hc_pc = "loop"
    /\ Len(hc_outcomes) = Len(health_checks)
    /\ LET total_checks == Len(checks_passed) + Len(checks_failed)
           overall == overall_status(Len(checks_passed), total_checks) IN
       hc_response' = <<[status |-> overall.status,
                         status_code |-> overall.status_code,
                         passed |-> checks_passed,
                         failed |-> checks_failed]>>
    /\ hc_pc' = "idle"
    /\ UNCHANGED <<hc_phase, health_checks, checks_passed, checks_failed, hc_outcomes>>

HCNext ==
    \/ \E name \in CheckNames : add_health_check(name) /\ UNCHANGED hcOthers
    \/ create_health_endpoint /\ UNCHANGED hcOthers
    \/ health_check_begin /\ UNCHANGED hcOthers
    \/ run_check /\ UNCHANGED hcOthers
    \/ health_check_respond /\ UNCHANGED hcOthers


(***************************************************************************)
(* get_environment_config                                                  *)
(***************************************************************************)
Workers == 1..NumWorkers

valid_envs == {"development", "staging", "production"}

\* the strings a header, a parameter or DEFAULT_ENVIRONMENT may hold in the model
EnvStrings == {"", "development", "staging", "production", "Staging", "qa"}

\* str.lower() on EnvStrings
lower(s) == IF s = "Staging" THEN "staging" ELSE s

\* an optional string: <<>> is None (or an unset variable), <<s>> the string s
Optional(S) == {<<>>} \cup {<<x>> : x \in S}

\* os.getenv('DEFAULT_ENVIRONMENT', 'production').lower()
default_environment ==
    lower(IF DEFAULT_ENVIRONMENT = <<>> THEN "production" ELSE DEFAULT_ENVIRONMENT[1])

\* configs[env]
configs(env) ==
    [environment |-> env, url |-> <<"SUPABASE_URL", env>>, key |-> <<"SERVICE_ROLE_KEY", env>>]

\* Priority 1: `environment and environment.lower() in valid_envs`
explicit_is_valid(environment) ==
    environment # <<>> /\ environment[1] # "" /\ lower(environment[1]) \in valid_envs

\* `header_env and header_env in valid_envs`, header_env the lower-cased header
header_is_valid(header) ==
    lower(header) # "" /\ lower(header) \in valid_envs

\* the priorities with the header read before the context variable
resolve_header_first(environment, ctx, has_request_context, header) ==
    IF explicit_is_valid(environment)
      THEN [env |-> lower(environment[1]), ctx |-> ctx]
    ELSE IF has_request_context /\ header_is_valid(header)
      THEN [env |-> lower(header), ctx |-> lower(header)]
    ELSE IF ctx # "production"
      THEN [env |-> ctx, ctx |-> ctx]
    ELSE IF default_environment \in valid_envs
      THEN [env |-> default_environment,
            ctx |-> IF has_request_context THEN default_environment ELSE ctx]
      ELSE [env |-> "production", ctx |-> ctx]

\* the body of get_environment_config: the env it settles on and the value it
\* leaves in env_context, from the parameter, the context variable as it is on
\* entry, whether there is a request context, and the X-Environment header
resolve(environment, ctx, has_request_context, header) ==
    IF explicit_is_valid(environment)
      THEN [env |-> lower(environment[1]), ctx |-> ctx]
    ELSE IF ctx # "production"
      THEN [env |-> ctx, ctx |-> ctx]
    ELSE IF has_request_context
      THEN IF header_is_valid(header)
             THEN [env |-> lower(header), ctx |-> lower(header)]
           ELSE IF default_environment \in valid_envs
             THEN [env |-> default_environment, ctx |-> default_environment]
             ELSE [env |-> "production", ctx |-> ctx]
      ELSE IF default_environment \notin valid_envs
             THEN [env |-> "production", ctx |-> ctx]
             ELSE [env |-> default_environment, ctx |-> ctx]

EnvInit ==
    /\ DEFAULT_ENVIRONMENT \in Optional(EnvStrings)
    /\ env_context = [w \in Workers |-> "production"]
    /\ env_call = <<>>

EnvIdle ==
    /\ DEFAULT_ENVIRONMENT = <<>>
    /\ env_context = [w \in Workers |-> "production"]
    /\ env_call = <<>>

\* worker thread w calls get_environment_config(environment): while it handles a
\* request (has_request_context, with that request's X-Environment header, "" when
\* the request has none) or outside any request
get_environment_config(w, environment, has_request_context, header) ==
    /\ component = "environment"
    /\ LET got == resolve(environment, env_context[w], has_request_context, header) IN
       /\ env_context' = [env_context EXCEPT ![w] = got.ctx]
       /\ env_call' = <<[worker |-> w,
                         environment |-> environment,
                         context |-> env_context[w],
                         has_request_context |-> has_request_context,
                         header |-> header,
                         config |-> configs(got.env)]>>
    /\ UNCHANGED DEFAULT_ENVIRONMENT

EnvNext ==
    \/ \E w \in Workers, environment \in Optional(EnvStrings), header \in EnvStrings :
          get_environment_config(w, environment, TRUE, header) /\ UNCHANGED envOthers
    \/ \E w \in Workers, environment \in Optional(EnvStrings) :
          get_environment_config(w, environment, FALSE, "") /\ UNCHANGED envOthers

(***************************************************************************)
(* job-extractor: download_file and POST /extract-from-file                *)
(***************************************************************************)
SUPABASE_JOB_FILES_BUCKET == "jobs"
SUPABASE_USER_FILES_BUCKET == "user_files"

\* the buckets the model's storage may hold
Buckets == {"jobs", "user_files", "user-files"}

\* a file path is the sequence of its '/'-separated segments; <<>> is a missing or
\* empty file_path
FilePaths == {<<>>, <<"doc.pdf">>, <<"jobs", "doc.pdf">>, <<"user_files", "doc.pdf">>,
              <<"cv", "doc.pdf">>}

\* bucket_id.replace("_", "-") on the bucket names of the model
alternative_name(bucket_id) ==
    IF bucket_id = "user_files" THEN "user-files" ELSE bucket_id

\* download_file(client, file_path): "BytesIO" or "None"
download_file(file_path) ==
    LET explicit == Len(file_path) > 1
                    /\ file_path[1] \in {"jobs", "user_files", "public", "job-files"}
        requested == IF explicit THEN file_path[1] ELSE SUPABASE_JOB_FILES_BUCKET
    IN
    IF ex_buckets = <<>> THEN "None"
    ELSE
      LET bucket_names == ex_buckets[1]
          bucket_id ==
              IF requested \in bucket_names THEN requested
              ELSE IF alternative_name(requested) \in bucket_names
                THEN alternative_name(requested)
              ELSE IF requested # SUPABASE_USER_FILES_BUCKET
                      /\ SUPABASE_USER_FILES_BUCKET \in bucket_names
                THEN SUPABASE_USER_FILES_BUCKET
                ELSE "none"
          fallback_bucket ==
              IF bucket_id # SUPABASE_USER_FILES_BUCKET
                THEN SUPABASE_USER_FILES_BUCKET ELSE SUPABASE_JOB_FILES_BUCKET
      IN
      IF bucket_id = "none" THEN "None"
      ELSE IF ex_storage[bucket_id] = "bytes" THEN "BytesIO"
      ELSE IF ex_storage[bucket_id] = "empty" THEN "None"
      ELSE IF fallback_bucket \in bucket_names /\ ex_storage[fallback_bucket] = "bytes"
        THEN "BytesIO"
        ELSE "None"

\* the `except` clause that handles an exception raised inside the try block and the
\* status it aborts with: `except ValueError` aborts with 400; `except Exception`,
\* which also catches the HTTPException that abort() raises, aborts with 500
except_clause(exception) ==
    IF exception = "ValueError" THEN 400 ELSE 500

ExWorld ==
    /\ HAS_SUPABASE \in BOOLEAN
    /\ ex_credentials \in BOOLEAN
    /\ ex_buckets \in {<<>>} \cup {<<names>> : names \in SUBSET Buckets}
    /\ ex_storage \in [Buckets -> {"bytes", "empty", "raises"}]

ExIdle ==
    /\ HAS_SUPABASE = TRUE
    /\ ex_credentials = TRUE
    /\ ex_buckets = <<{}>>
    /\ ex_storage = [b \in Buckets |-> "empty"]
    /\ ex_pc = "idle"
    /\ ex_request = [json |-> "none", file_path |-> <<>>]
    /\ ex_blob = "unset"
    /\ ex_exception = "none"
    /\ ex_status = 0

ExInit ==
    /\ ExWorld
    /\ ex_pc = "idle"
    /\ ex_request = [json |-> "none", file_path |-> <<>>]
    /\ ex_blob = "unset"
    /\ ex_exception = "none"
    /\ ex_status = 0

\* a POST /extract-from-file arrives: no JSON body, an empty object, or an object
\* with (or, for <<>>, without) a file_path
ex_receive(json, file_path) ==
    /\ component = "job_extractor"
    /\ ex_pc = "idle"
    /\ json = "object" \/ file_path = <<>>
    /\ ex_request' = [json |-> json, file_path |-> file_path]
    /\ ex_pc' = "validate"
    /\ ex_blob' = "unset"
    /\ ex_exception' = "none"
    /\ ex_status' = 0
    /\ UNCHANGED <<HAS_SUPABASE, ex_credentials, ex_buckets, ex_storage>>

\* the checks before the try block; abort() outside a try answers with its status
ex_validate ==
    /\ component = "job_extractor"
    /\ ex_pc = "validate"
    /\ IF ~HAS_SUPABASE
         THEN ex_status' = 500 /\ ex_pc' = "idle"
       ELSE IF ex_request.json # "object"
         THEN ex_status' = 400 /\ ex_pc' = "idle"
       ELSE IF ex_request.file_path = <<>>
         THEN ex_status' = 400 /\ ex_pc' = "idle"
         ELSE ex_status' = 0 /\ ex_pc' = "try"
    /\ UNCHANGED <<HAS_SUPABASE, ex_credentials, ex_buckets, ex_storage, ex_request,
                   ex_blob, ex_exception>>

\* the try block up to the download: the credentials check, create_client() and
\* download_file(); each abort() raises an HTTPException inside the try block
ex_download ==
    /\ component = "job_extractor"
    /\ ex_pc = "try"
    /\ \E create_client \in {"client", "raises"} :
         IF ~ex_credentials
           THEN ex_exception' = "InternalServerError" /\ ex_pc' = "except"
                /\ UNCHANGED ex_blob
         ELSE IF create_client = "raises"
           THEN ex_exception' = "Exception" /\ ex_pc' = "except" /\ UNCHANGED ex_blob
         ELSE /\ ex_blob' = download_file(ex_request.file_path)
              /\ IF download_file(ex_request.file_path) = "None"
                   THEN ex_exception' = "NotFound" /\ ex_pc' = "except"
                   ELSE ex_exception' = "none" /\ ex_pc' = "extract"
    /\ UNCHANGED <<HAS_SUPABASE, ex_credentials, ex_buckets, ex_storage, ex_request,
                   ex_status>>

\* extract_job_data_from_file returns the job data or raises
ex_extract ==
    /\ component = "job_extractor"
    /\ ex_pc = "extract"
    /\ \E outcome \in {"job_data", "ValueError", "Exception"} :
         IF outcome = "job_data"
           THEN ex_pc' = "respond" /\ UNCHANGED ex_exception
           ELSE ex_pc' = "except" /\ ex_exception' = outcome
    /\ UNCHANGED <<HAS_SUPABASE, ex_credentials, ex_buckets, ex_storage, ex_request,
                   ex_blob, ex_status>>

\* the except clauses of the try block
ex_except ==
    /\ component = "job_extractor"
    /\ ex_pc = "except"
    /\ ex_status' = except_clause(ex_exception)
    /\ ex_pc' = "idle"
    /\ UNCHANGED <<HAS_SUPABASE, ex_credentials, ex_buckets, ex_storage, ex_request,
                   ex_blob, ex_exception>>

\* return jsonify(job_data), 200
ex_respond ==
    /\ component = "job_extractor"
    /\ ex_pc = "respond"
    /\ ex_status' = 200
    /\ ex_pc' = "idle"
    /\ UNCHANGED <<HAS_SUPABASE, ex_credentials, ex_buckets, ex_storage, ex_request,
                   ex_blob, ex_exception>>

ExNext ==
    \/ \E json \in {"none", "empty", "object"}, file_path \in FilePaths :
          ex_receive(json, file_path) /\ UNCHANGED exOthers
    \/ ex_validate /\ UNCHANGED exOthers
    \/ ex_download /\ UNCHANGED exOthers
    \/ ex_extract /\ UNCHANGED exOthers
    \/ ex_except /\ UNCHANGED exOthers
    \/ ex_respond /\ UNCHANGED exOthers

(***************************************************************************)
(* job-matcher: POST /match (match_job) and POST /match-user (match_user)  *)
(***************************************************************************)
Requests == 1..NumRequests

Endpoints == {"/match", "/match-user"}

\* the request body: not JSON at all (no body, no JSON content type), the JSON null,
\* an object without the id key of the endpoint, an object with it, a JSON string
\* that contains the key's name, a JSON number other than 0 (or the JSON true)
Bodies == {"not_json", "null", "no_id", "with_id", "string_with_id", "number"}

Ids == {"id1", "id2"}

\* the thread target of each endpoint
target_of(endpoint) ==
    IF endpoint = "/match" THEN "match_job_to_users_async" ELSE "match_user_to_jobs_async"

\* request.headers.get('X-Environment', '').lower(), None unless a valid environment
environment_of(header) ==
    IF lower(header) \in valid_envs THEN <<lower(header)>> ELSE <<>>

\* the "error" field of the body each return statement of the handlers sends
error_of(endpoint, status) ==
    IF status = 400
      THEN IF endpoint = "/match" THEN "job_id is required" ELSE "user_id is required"
    ELSE IF status = 404
      THEN IF endpoint = "/match" THEN "Job with ID not found" ELSE "User with ID not found"
    ELSE IF status = 500
      THEN IF endpoint = "/match" THEN "Failed to start job matching"
                                  ELSE "Failed to start user matching"
    ELSE ""

\* what `return jsonify(...), status` of request r leaves in the response
responds(r, status) ==
    /\ api_response' = [api_response EXCEPT ![r] = status]
    /\ api_error' = [api_error EXCEPT ![r] = error_of(api_request[r].endpoint, status)]
    /\ api_pc' = [api_pc EXCEPT ![r] = "done"]

NoRequest == [endpoint |-> "/match", body |-> "null", id |-> "id1",
              overwrite |-> FALSE, header |-> ""]

ApiIdle ==
    /\ get_json_raises = FALSE
    /\ api_pc = [r \in Requests |-> "idle"]
    /\ api_request = [r \in Requests |-> NoRequest]
    /\ api_response = [r \in Requests |-> 0]
    /\ api_threads = [r \in Requests |-> <<>>]
    /\ api_error = [r \in Requests |-> ""]
    /\ api_queries = [r \in Requests |-> 0]

ApiInit ==
    /\ get_json_raises \in BOOLEAN
    /\ api_pc = [r \in Requests |-> "idle"]
    /\ api_request = [r \in Requests |-> NoRequest]
    /\ api_response = [r \in Requests |-> 0]
    /\ api_threads = [r \in Requests |-> <<>>]
    /\ api_error = [r \in Requests |-> ""]
    /\ api_queries = [r \in Requests |-> 0]

\* request r arrives at one of the two endpoints
api_receive(r, endpoint, body, id, overwrite, header) ==
    /\ component = "job_matcher_api"
    /\ api_pc[r] = "idle"
    /\ api_request' = [api_request EXCEPT ![r] =
           [endpoint |-> endpoint, body |-> body, id |-> id,
            overwrite |-> overwrite, header |-> header]]
    /\ api_pc' = [api_pc EXCEPT ![r] = "get_json"]
    /\ UNCHANGED <<get_json_raises, api_response, api_threads, api_error, api_queries>>

\* data = request.get_json(); if not data or "<id key>" not in data: 400.
\* get_json() of a Flask that raises on a non-JSON body, `"<id key>" not in data` on a
\* number (TypeError: not iterable) and data["<id key>"] on a string (TypeError)
\* raise inside the try block, and the handler's `except Exception` answers 500
api_validate(r) ==
    /\ component = "job_matcher_api"
    /\ api_pc[r] = "get_json"
    /\ IF \/ api_request[r].body = "not_json" /\ get_json_raises
          \/ api_request[r].body = "number"
          \/ api_request[r].body = "string_with_id"
         THEN responds(r, 500)
       ELSE IF api_request[r].body # "with_id"
         THEN responds(r, 400)
         ELSE /\ api_pc' = [api_pc EXCEPT ![r] = "exists"]
              /\ UNCHANGED <<api_response, api_error>>
    /\ UNCHANGED <<get_json_raises, api_request, api_threads, api_queries>>

\* the thread the handler of r builds: target, args and daemon=True
new_thread(r) ==
    [target |-> target_of(api_request[r].endpoint),
     args |-> <<api_request[r].id, api_request[r].overwrite,
                environment_of(api_request[r].header)>>,
     daemon |-> TRUE,
     state |-> "running"]

\* the existence check, made after the thread was started
api_check_exists_late(r) ==
    /\ component = "job_matcher_api"
    /\ api_pc[r] = "exists"
    /\ \E found \in BOOLEAN :
         /\ api_threads' = [api_threads EXCEPT ![r] = Append(@, new_thread(r))]
         /\ api_queries' = [api_queries EXCEPT ![r] = @ + 1]
         /\ IF found
              THEN /\ api_pc' = [api_pc EXCEPT ![r] = "respond"]
                   /\ UNCHANGED <<api_response, api_error>>
              ELSE responds(r, 404)
    /\ UNCHANGED <<get_json_raises, api_request>>

\* job_exists / user_exists: False when there is no row and when the query fails
api_check_exists(r) ==
    /\ component = "job_matcher_api"
    /\ api_pc[r] = "exists"
    /\ api_queries' = [api_queries EXCEPT ![r] = @ + 1]
    /\ \E found \in BOOLEAN :
         IF found
           THEN /\ api_pc' = [api_pc EXCEPT ![r] = "start"]
                /\ UNCHANGED <<api_response, api_error>>
           ELSE responds(r, 404)
    /\ UNCHANGED <<get_json_raises, api_request, api_threads>>

\* threading.Thread(target=..., args=..., daemon=True).start(); start() may raise
\* RuntimeError, which the handler's except answers with 500
api_start_thread(r) ==
    /\ component = "job_matcher_api"
    /\ api_pc[r] = "start"
    /\ \E started \in BOOLEAN :
         IF started
           THEN /\ api_threads' = [api_threads EXCEPT ![r] = Append(@, new_thread(r))]
                /\ api_pc' = [api_pc EXCEPT ![r] = "respond"]
                /\ UNCHANGED <<api_response, api_error>>
           ELSE /\ responds(r, 500)
                /\ UNCHANGED api_threads
    /\ UNCHANGED <<get_json_raises, api_request, api_queries>>

\* return jsonify({"status": "accepted", ...}), 202
api_respond(r) ==
    /\ component = "job_matcher_api"
    /\ api_pc[r] = "respond"
    /\ responds(r, 202)
    /\ UNCHANGED <<get_json_raises, api_request, api_threads, api_queries>>

\* the matching work of the i-th thread started by request r comes to its end
thread_finishes(r, i) ==
    /\ component = "job_matcher_api"
    /\ i \in 1..Len(api_threads[r])
    /\ api_threads[r][i].state = "running"
    /\ api_threads' = [api_threads EXCEPT ![r][i].state = "finished"]
    /\ UNCHANGED <<get_json_raises, api_pc, api_request, api_response, api_error,
                   api_queries>>

ApiNext ==
    \/ \E r \in Requests, endpoint \in Endpoints, body \in Bodies, id \in Ids,
          overwrite \in BOOLEAN, header \in {"", "Staging"} :
          api_receive(r, endpoint, body, id, overwrite, header) /\ UNCHANGED apiOthers
    \/ \E r \in Requests : api_validate(r) /\ UNCHANGED apiOthers
    \/ \E r \in Requests : api_check_exists(r) /\ UNCHANGED apiOthers
    \/ \E r \in Requests : api_start_thread(r) /\ UNCHANGED apiOthers
    \/ \E r \in Requests : api_respond(r) /\ UNCHANGED apiOthers
    \/ \E r \in Requests, i \in 1..2 : thread_finishes(r, i) /\ UNCHANGED apiOthers

(***************************************************************************)
(* job-matcher: match_user_to_jobs_async and match_job_to_users_async      *)
(***************************************************************************)
Runs == 1..NumRuns
Users == 1..NumUsers
Jobs == 1..NumJobs

\* the lists a query may return: the members of S in id order, for every subset
ListsOf(S) ==
    {q \in UNION {[1..n -> S] : n \in 0..Cardinality(S)} :
        \A i \in 1..Len(q), k \in 1..Len(q) : i < k => q[i] < q[k]}

NoRun == [kind |-> "none", id |-> 0, overwrite |-> FALSE, pc |-> "idle",
          specialties |-> 0, todo |-> <<>>, cur |-> 0, result |-> "none",
          query_failed |-> FALSE,
          set_processing |-> FALSE, set_finished |-> FALSE, updates_ok |-> TRUE]

\* the (user, job) pair run r is working on
pair(r) ==
    IF run[r].kind = "user" THEN <<run[r].id, run[r].cur>> ELSE <<run[r].cur, run[r].id>>

RunIdle ==
    /\ matching_status = [u \in Users |-> "none"]
    /\ match_table = [p \in Users \X Jobs |-> 0]
    /\ run = [r \in Runs |-> NoRun]

RunInit ==
    /\ matching_status = [u \in Users |-> "none"]
    /\ match_table \in [Users \X Jobs -> {0, 1}]
    /\ run = [r \in Runs |-> NoRun]

\* a handler's thread.start(): the thread runs match_user_to_jobs_async(id, ...) or
\* match_job_to_users_async(id, ...)
run_starts(r, kind, id, overwrite) ==
    /\ component = "job_matcher_runs"
    /\ run[r].pc = "idle"
    /\ run' = [run EXCEPT ![r] = [NoRun EXCEPT !.kind = kind, !.id = id,
                                              !.overwrite = overwrite, !.pc = "begin"]]
    /\ UNCHANGED <<matching_status, match_table>>

\* update_user_matching_status(user_id, status): the row is updated, or the call
\* fails and returns False
update_user_matching_status(r, status, ok, next_pc) ==
    /\ matching_status' = IF ok THEN [matching_status EXCEPT ![run[r].id] = status]
                          ELSE matching_status
    /\ run' = [run EXCEPT
                 ![r].pc = next_pc,
                 ![r].updates_ok = @ /\ ok,
                 ![r].set_processing = @ \/ (ok /\ status = "processing"),
                 ![r].set_finished = @ \/ (ok /\ status = "finished")]
    /\ UNCHANGED match_table

\* match_user_to_jobs_async: update_user_matching_status(user_id, "processing")
user_set_processing(r) ==
    /\ component = "job_matcher_runs"
    /\ run[r].kind = "user" /\ run[r].pc = "begin"
    /\ \E ok \in BOOLEAN : update_user_matching_status(r, "processing", ok, "specialties")

\* user_specialties = get_user_specialties(user_id); `if not user_specialties: return`
user_get_specialties(r) ==
    /\ component = "job_matcher_runs"
    /\ run[r].kind = "user" /\ run[r].pc = "specialties"
    /\ \E n \in 0..MaxSpecialties :
         run' = [run EXCEPT ![r].specialties = n,
                            ![r].pc = IF n = 0 THEN "done" ELSE "resume"]
    /\ UNCHANGED <<matching_status, match_table>>

\* resume_text = get_resume_text_for_user(user_id); `if not resume_text: return`
user_get_resume(r) ==
    /\ component = "job_matcher_runs"
    /\ run[r].kind = "user" /\ run[r].pc = "resume"
    /\ \E resume_text \in BOOLEAN :
         run' = [run EXCEPT ![r].pc = IF resume_text THEN "next_specialty" ELSE "done"]
    /\ UNCHANGED <<matching_status, match_table>>

\* `for specialty in user_specialties`: a specialty without id_rosetta is skipped;
\* fetch_jobs_by_specialty gives the jobs ([] when the query fails); a response
\* whose data is None makes len(matching_jobs) raise into the outer except
user_next_specialty(r) ==
    /\ component = "job_matcher_runs"
    /\ run[r].kind = "user" /\ run[r].pc = "next_specialty"
    /\ IF run[r].specialties = 0
         THEN run' = [run EXCEPT ![r].pc = "finish"]
         ELSE \/ run' = [run EXCEPT ![r].specialties = @ - 1]
              \/ \E jobs \in ListsOf(Jobs) :
                    run' = [run EXCEPT ![r].specialties = @ - 1, ![r].todo = jobs,
                                       ![r].pc = "loop"]
              \/ run' = [run EXCEPT ![r].pc = "except"]
    /\ UNCHANGED <<matching_status, match_table>>

\* update_user_matching_status(user_id, "finished") at the end of the try block
user_finish(r) ==
    /\ component = "job_matcher_runs"
    /\ run[r].kind = "user" /\ run[r].pc = "finish"
    /\ \E ok \in BOOLEAN : update_user_matching_status(r, "finished", ok, "done")

\* the outer `except Exception`: update_user_matching_status(user_id, "finished")
user_except(r) ==
    /\ component = "job_matcher_runs"
    /\ run[r].kind = "user" /\ run[r].pc = "except"
    /\ \E ok \in BOOLEAN : update_user_matching_status(r, "finished", ok, "done")

\* match_job_to_users_async: fetch_job_by_id raises (the outer except logs it), or the
\* job has no medical specialty (return), or the job is there
job_fetch(r) ==
    /\ component = "job_matcher_runs"
    /\ run[r].kind = "job" /\ run[r].pc = "begin"
    /\ \E outcome \in {"raises", "no_specialty", "job"} :
         run' = [run EXCEPT ![r].pc = IF outcome = "job" THEN "get_users" ELSE "done"]
    /\ UNCHANGED <<matching_status, match_table>>

\* hcp_users = get_users_by_role("hcp"): the user rows ([] when the query fails)
job_get_users(r) ==
    /\ component = "job_matcher_runs"
    /\ run[r].kind = "job" /\ run[r].pc = "get_users"
    /\ \E users \in ListsOf(Users) :
         run' = [run EXCEPT ![r].todo = users, ![r].pc = "loop"]
    /\ UNCHANGED <<matching_status, match_table>>

\* check_match_exists(user_id, job_id): a row is there; False when the query fails
check_match_exists(p, query_fails) == ~query_fails /\ match_table[p] > 0

\* the head of the inner loop: take the next job (user), and skip it when
\* `not overwrite_existing and check_match_exists(...)`
loop_check(r) ==
    /\ component = "job_matcher_runs"
    /\ run[r].pc = "loop" /\ run[r].todo # <<>>
    /\ LET p == IF run[r].kind = "user" THEN <<run[r].id, Head(run[r].todo)>>
                ELSE <<Head(run[r].todo), run[r].id>> IN
       \E query_fails \in BOOLEAN :
         run' = [run EXCEPT
                   ![r].cur = Head(run[r].todo),
                   ![r].todo = Tail(run[r].todo),
                   ![r].query_failed = ~run[r].overwrite /\ query_fails,
                   ![r].pc = IF ~run[r].overwrite /\ check_match_exists(p, query_fails)
                               THEN "loop"
                             ELSE IF run[r].kind = "user" THEN "score" ELSE "user_data"]
    /\ UNCHANGED <<matching_status, match_table>>

\* the inner loop is over
loop_end(r) ==
    /\ component = "job_matcher_runs"
    /\ run[r].pc = "loop" /\ run[r].todo = <<>>
    /\ run' = [run EXCEPT ![r].cur = 0,
                          ![r].pc = IF run[r].kind = "user" THEN "next_specialty"
                                    ELSE "done"]
    /\ UNCHANGED <<matching_status, match_table>>

\* match_job_to_users_async, per user: the specialties must contain the job's, and
\* there must be a resume text; an exception goes to the inner except (continue)
job_user_data(r) ==
    /\ component = "job_matcher_runs"
    /\ run[r].kind = "job" /\ run[r].pc = "user_data"
    /\ \E outcome \in {"no_specialty_match", "no_resume_text", "raises", "resume_text"} :
         run' = [run EXCEPT ![r].pc = IF outcome = "resume_text" THEN "score" ELSE "loop"]
    /\ UNCHANGED <<matching_status, match_table>>

\* compute_healthcare_match_score: None, or a result with a score of at most 0.5
\* ("low") or above ("high"); an exception goes to the inner except (continue).
\* match_job_to_users_async stores only a score above 0.5
score(r) ==
    /\ component = "job_matcher_runs"
    /\ run[r].pc = "score"
    /\ \E outcome \in {"None", "raises", "low", "high"} :
         run' = [run EXCEPT
                   ![r].result = IF outcome \in {"low", "high"} THEN outcome ELSE "none",
                   ![r].pc = IF outcome = "high" \/ (outcome = "low" /\ run[r].kind = "user")
                               THEN "store" ELSE "loop"]
    /\ UNCHANGED <<matching_status, match_table>>

\* store_match_result: the upsert writes the row, or fails and is only logged
store_match_result(r) ==
    /\ component = "job_matcher_runs"
    /\ run[r].pc = "store"
    /\ \E stored \in BOOLEAN :
         match_table' = IF stored THEN [match_table EXCEPT ![pair(r)] = @ + 1]
                        ELSE match_table
    /\ run' = [run EXCEPT ![r].pc = "loop", ![r].result = "none"]
    /\ UNCHANGED matching_status

RunNext ==
    \/ \E r \in Runs, u \in Users, overwrite \in BOOLEAN :
          run_starts(r, "user", u, overwrite) /\ UNCHANGED runOthers
    \/ \E r \in Runs, j \in Jobs, overwrite \in BOOLEAN :
          run_starts(r, "job", j, overwrite) /\ UNCHANGED runOthers
    \/ \E r \in Runs : user_set_processing(r) /\ UNCHANGED runOthers
    \/ \E r \in Runs : user_get_specialties(r) /\ UNCHANGED runOthers
    \/ \E r \in Runs : user_get_resume(r) /\ UNCHANGED runOthers
    \/ \E r \in Runs : user_next_specialty(r) /\ UNCHANGED runOthers
    \/ \E r \in Runs : user_finish(r) /\ UNCHANGED runOthers
    \/ \E r \in Runs : user_except(r) /\ UNCHANGED runOthers
    \/ \E r \in Runs : job_fetch(r) /\ UNCHANGED runOthers
    \/ \E r \in Runs : job_get_users(r) /\ UNCHANGED runOthers
    \/ \E r \in Runs : loop_check(r) /\ UNCHANGED runOthers
    \/ \E r \in Runs : loop_end(r) /\ UNCHANGED runOthers
    \/ \E r \in Runs : job_user_data(r) /\ UNCHANGED runOthers
    \/ \E r \in Runs : score(r) /\ UNCHANGED runOthers
    \/ \E r \in Runs : store_match_result(r) /\ UNCHANGED runOthers

(***************************************************************************)
(* resume-parser: POST /user-profile (hcp_user_profile_endpoint)           *)
(***************************************************************************)
SUPABASE_USER_FILE_BUCKET == "user_files"
SUPABASE_RESUMES_BUCKET == "resumes"

\* the buckets the model's storage may hold
ResumeBuckets == {"user_files", "user-files", "resumes"}

\* a file path is the sequence of its '/'-separated segments; <<>> is a missing or
\* empty file_path
ResumePaths == {<<>>, <<"cv.pdf">>, <<"resumes", "cv.pdf">>,
                <<"staging", "user_files", "cv.pdf">>}

\* the request body: an empty JSON object, an object without file_path, an object
\* with file_path, a non-empty JSON array
ResumeBodies == {"empty", "no_file_path", "with_file_path", "array"}

\* download_file(client, file_path) of utils/supabase/bucket.py: "BytesIO" or "None"
download_resume(file_path) ==
    LET known_buckets == {"user_files", "resumes", "public", "avatars", "user-files"}
        parts == IF Len(file_path) >= 2 /\ file_path[1] \in valid_envs
                   THEN Tail(file_path) ELSE file_path
        requested == IF Len(parts) >= 2 /\ parts[1] \in known_buckets
                       THEN parts[1] ELSE SUPABASE_USER_FILE_BUCKET
    IN
    IF rp_buckets = <<>> THEN "None"
    ELSE
      LET bucket_names == rp_buckets[1]
          bucket_id ==
              IF requested \in bucket_names THEN requested
              ELSE IF alternative_name(requested) \in bucket_names
                THEN alternative_name(requested)
              ELSE IF requested # SUPABASE_RESUMES_BUCKET
                      /\ SUPABASE_RESUMES_BUCKET \in bucket_names
                THEN SUPABASE_RESUMES_BUCKET
                ELSE "none"
          fallback_bucket ==
              IF bucket_id # SUPABASE_RESUMES_BUCKET
                THEN SUPABASE_RESUMES_BUCKET ELSE SUPABASE_USER_FILE_BUCKET
      IN
      IF bucket_id = "none" THEN "None"
      ELSE IF rp_storage[bucket_id] = "bytes" THEN "BytesIO"
      ELSE IF rp_storage[bucket_id] = "empty" THEN "None"
      ELSE IF fallback_bucket \in bucket_names /\ rp_storage[fallback_bucket] = "bytes"
        THEN "BytesIO"
        ELSE "None"

\* the parameters of create_client(options) of utils/supabase/client.py
create_client_parameters == {"options"}

\* the keyword arguments of the call create_client(options=..., environment=...)
\* made by extract_profile_from_resume
create_client_keywords == {"options", "environment"}

\* a Python call with keyword arguments binds when every keyword is a parameter of
\* the function; otherwise it raises TypeError (unexpected keyword argument)
call_binds(parameters, keywords) == keywords \subseteq parameters

\* extract_profile_from_resume(file_path): <<what download_file returned ("unset" when
\* it was not called), "returns" or the exception raised>>; processing_raises says
\* whether a step after the download (head-shot extraction, logging) raises
extract_profile_from_resume(file_path, processing_raises) ==
    IF ~rp_url \/ ~rp_key THEN <<"unset", "ValueError">>
    ELSE IF ~call_binds(create_client_parameters, create_client_keywords)
      THEN <<"unset", "TypeError">>
    ELSE IF download_resume(file_path) = "None" THEN <<"None", "FileNotFoundError">>
    ELSE IF processing_raises THEN <<"BytesIO", "Exception">>
    ELSE <<"BytesIO", "returns">>

\* the except clauses of the handler around the call, and the status each aborts with
profile_except_clause(exception) ==
    IF exception = "FileNotFoundError" THEN 404
    ELSE IF exception = "ValueError" THEN 400
    ELSE 500

RPWorld ==
    /\ rp_url \in BOOLEAN
    /\ rp_key \in BOOLEAN
    /\ rp_buckets \in {<<>>} \cup {<<names>> : names \in SUBSET ResumeBuckets}
    /\ rp_storage \in [ResumeBuckets -> {"bytes", "empty", "raises"}]

RPIdle ==
    /\ rp_url = TRUE
    /\ rp_key = TRUE
    /\ rp_buckets = <<{}>>
    /\ rp_storage = [b \in ResumeBuckets |-> "empty"]
    /\ rp_pc = "idle"
    /\ rp_request = [body |-> "empty", file_path |-> <<>>]
    /\ rp_blob = "unset"
    /\ rp_outcome = "none"
    /\ rp_status = 0

RPInit ==
    /\ RPWorld
    /\ rp_pc = "idle"
    /\ rp_request = [body |-> "empty", file_path |-> <<>>]
    /\ rp_blob = "unset"
    /\ rp_outcome = "none"
    /\ rp_status = 0

\* a request arrives; request_data = request.get_json()
rp_receive(body, file_path) ==
    /\ component = "resume_parser"
    /\ rp_pc = "idle"
    /\ rp_request' = [body |-> body,
                      file_path |-> IF body = "with_file_path" THEN file_path ELSE <<>>]
    /\ rp_blob' = "unset"
    /\ rp_outcome' = "none"
    /\ rp_status' = 0
    /\ rp_pc' = "validate"
    /\ UNCHANGED <<rp_url, rp_key, rp_buckets, rp_storage>>

\* if not request_data: abort(400); file_path = request_data.get("file_path")
\* (AttributeError on an array, outside any try: Flask answers 500);
\* if not file_path: abort(400)
rp_validate ==
    /\ component = "resume_parser"
    /\ rp_pc = "validate"
    /\ IF rp_request.body = "empty"
         THEN rp_status' = 400 /\ rp_pc' = "idle"
       ELSE IF rp_request.body = "array"
         THEN rp_status' = 500 /\ rp_pc' = "idle"
       ELSE IF rp_request.file_path = <<>>
         THEN rp_status' = 400 /\ rp_pc' = "idle"
         ELSE rp_pc' = "extract" /\ UNCHANGED rp_status
    /\ UNCHANGED <<rp_url, rp_key, rp_buckets, rp_storage, rp_request, rp_blob,
                   rp_outcome>>

\* resume_text, profile_dict = extract_profile_from_resume(file_path=file_path)
rp_extract ==
    /\ component = "resume_parser"
    /\ rp_pc = "extract"
    /\ \E processing_raises \in BOOLEAN :
         LET result == extract_profile_from_resume(rp_request.file_path, processing_raises)
         IN /\ rp_blob' = result[1]
            /\ rp_outcome' = result[2]
    /\ rp_pc' = "respond"
    /\ UNCHANGED <<rp_url, rp_key, rp_buckets, rp_storage, rp_request, rp_status>>

\* the except clauses, or json.dumps/json.loads of the profile and
\* return jsonify(profile_dict), 200 (abort(500) when the serialisation raises)
rp_respond ==
    /\ component = "resume_parser"
    /\ rp_pc = "respond"
    /\ IF rp_outcome = "returns"
         THEN \E serialised \in BOOLEAN : rp_status' = IF serialised THEN 200 ELSE 500
         ELSE rp_status' = profile_except_clause(rp_outcome)
    /\ rp_pc' = "idle"
    /\ UNCHANGED <<rp_url, rp_key, rp_buckets, rp_storage, rp_request, rp_blob,
                   rp_outcome>>

RPNext ==
    \/ \E body \in ResumeBodies, file_path \in ResumePaths :
          rp_receive(body, file_path) /\ UNCHANGED rpOthers
    \/ rp_validate /\ UNCHANGED rpOthers
    \/ rp_extract /\ UNCHANGED rpOthers
    \/ rp_respond /\ UNCHANGED rpOthers

(***************************************************************************)
(* job-enricher: POST /enrich (job_enricher_endpoint, enrich_job_data,     *)
(* process_job_enrichment)                                                 *)
(***************************************************************************)
required_fields == {"title", "summary", "responsibilities", "qualifications"}

\* the keys a payload or a reply of the model may use
EnrichKeys == required_fields \cup {"perks", "highlightedBenefits"}

\* A JSON value as Python sees it: kind is "null", "object", "array", "string" or
\* "number"; keys are the object's keys, the strings an array holds, or the key
\* names a string contains (`key in data` is true of exactly these).
JsonValue(kind, keys) == [kind |-> kind, keys |-> keys]

JsonValues ==
    {JsonValue("null", {}), JsonValue("number", {})}
        \cup {JsonValue(kind, keys) : kind \in {"object"}, keys \in SUBSET EnrichKeys}
        \cup {JsonValue(kind, EnrichKeys) : kind \in {"array", "string"}}

\* what the model call yields: the API call raises, the content is not JSON, or
\* the content parses to a JSON value
ModelReplies ==
    {JsonValue("api_error", {}), JsonValue("invalid_json", {})} \cup JsonValues

\* Python truth of a JSON value (None, {}, [], "" and 0 are false)
truthy(data) ==
    \/ data.kind = "number"
    \/ data.kind \in {"object", "array", "string"} /\ data.keys # {}

\* the check that only looks for the handler's required fields
missing_required_key(job_data, enriched_data) ==
    (job_data.keys \cap required_fields) \ enriched_data.keys # {}

\* for key in job_data.keys(): if key not in enriched_data: raise ValueError
missing_key(job_data, enriched_data) ==
    job_data.keys \ enriched_data.keys # {}

\* process_job_enrichment(job_data) when the model answers `reply`:
\* <<"returns", value>> or <<exception, reply>>
process_job_enrichment(job_data, reply) ==
    IF reply.kind = "api_error" THEN <<"Exception", reply>>
    ELSE IF reply.kind = "invalid_json" THEN <<"ValueError", reply>>
    ELSE IF reply.kind \in {"number", "null"} /\ job_data.keys # {}
      THEN <<"TypeError", reply>>
    ELSE IF missing_key(job_data, reply) THEN <<"ValueError", reply>>
    ELSE <<"returns", reply>>

\* enrich_job_data(job_data) when the model answers `reply`
enrich_job_data(job_data, reply) ==
    IF job_data.kind # "object" THEN <<"AttributeError", reply>>
    ELSE
      LET validated_job_data == job_data
          result == process_job_enrichment(validated_job_data, reply)
      IN
      IF result[1] # "returns" THEN result
      ELSE IF ~truthy(result[2]) THEN <<"ValueError", reply>>
      ELSE IF result[2].kind # "object" THEN <<"AttributeError", reply>>
      ELSE IF missing_key(validated_job_data, result[2]) THEN <<"ValueError", reply>>
      ELSE result

\* the except clauses of the handler around enrich_job_data and its own checks
enrich_except_clause(exception) ==
    IF exception = "ValueError" THEN 400 ELSE 500

NoPayload == JsonValue("null", {})

ENIdle ==
    /\ en_pc = "idle"
    /\ en_request = NoPayload
    /\ en_validated = <<>>
    /\ en_reply = <<>>
    /\ en_outcome = "none"
    /\ en_enriched = <<>>
    /\ en_status = 0
    /\ en_body = <<>>

\* a request arrives; request_data = request.get_json()
en_receive(payload) ==
    /\ component = "job_enricher"
    /\ en_pc = "idle"
    /\ en_request' = payload
    /\ en_validated' = <<>>
    /\ en_reply' = <<>>
    /\ en_outcome' = "none"
    /\ en_enriched' = <<>>
    /\ en_status' = 0
    /\ en_body' = <<>>
    /\ en_pc' = "validate"

\* if not request_data: abort(400); for field in required_fields:
\* if field not in request_data: abort(400). On a number `in` raises TypeError
\* outside any try, which Flask answers 500.
en_validate ==
    /\ component = "job_enricher"
    /\ en_pc = "validate"
    /\ IF ~truthy(en_request)
         THEN en_status' = 400 /\ en_pc' = "idle"
       ELSE IF en_request.kind = "number"
         THEN en_status' = 500 /\ en_pc' = "idle"
       ELSE IF required_fields \ en_request.keys # {}
         THEN en_status' = 400 /\ en_pc' = "idle"
         ELSE en_pc' = "enrich" /\ UNCHANGED en_status
    /\ UNCHANGED <<en_request, en_validated, en_reply, en_outcome, en_enriched, en_body>>

\* enriched_data = enrich_job_data(request_data); the model answers `reply`
en_enrich(reply) ==
    /\ component = "job_enricher"
    /\ en_pc = "enrich"
    /\ LET result == enrich_job_data(en_request, reply)
       IN /\ en_outcome' = result[1]
          /\ en_enriched' = IF result[1] = "returns" THEN <<result[2]>> ELSE <<>>
    /\ en_validated' = IF en_request.kind = "object" THEN <<en_request>> ELSE <<>>
    /\ en_reply' = IF en_request.kind = "object" THEN <<reply>> ELSE <<>>
    /\ en_pc' = "respond"
    /\ UNCHANGED <<en_request, en_status, en_body>>

\* the handler's checks of enriched_data (abort(500) inside the try), its except
\* clauses, and return jsonify(enriched_data), 200
en_respond ==
    /\ component = "job_enricher"
    /\ en_pc = "respond"
    /\ IF en_outcome # "returns"
         THEN en_status' = enrich_except_clause(en_outcome) /\ UNCHANGED en_body
       ELSE IF \/ ~truthy(en_enriched[1])
               \/ required_fields \ en_enriched[1].keys # {}
         THEN en_status' = enrich_except_clause("HTTPException") /\ UNCHANGED en_body
         ELSE en_status' = 200 /\ en_body' = <<en_enriched[1].keys>>
    /\ en_pc' = "idle"
    /\ UNCHANGED <<en_request, en_validated, en_reply, en_outcome, en_enriched>>

ENNext ==
    \/ \E payload \in JsonValues : en_receive(payload) /\ UNCHANGED enOthers
    \/ en_validate /\ UNCHANGED enOthers
    \/ \E reply \in ModelReplies : en_enrich(reply) /\ UNCHANGED enOthers
    \/ en_respond /\ UNCHANGED enOthers

(***************************************************************************)
(* resume-parser: about_extract (models/user_profile/model.py) and         *)
(* send_prompt (utils/openai/prompting.py)                                 *)
(***************************************************************************)
\* The reply text is a sequence of tokens: "fence" (a backtick), "j" (a letter of
\* the word json), the brackets and braces, "1" (a JSON scalar) and " " (white space).
Tokens == {"fence", "j", "[", "]", "{", "}", "1", " "}

RECURSIVE ContentsOf(_)
\* the token sequences of length n
ContentsOf(n) ==
    IF n = 0 THEN {<<>>}
    ELSE {Append(s, t) : s \in ContentsOf(n - 1), t \in Tokens}

Contents == UNION {ContentsOf(n) : n \in 0..MaxContent}

\* what the API call does: it raises, or it returns a message whose content is None
\* or a text
ApiOutcomes == {"RateLimitError", "APIError", "Exception", "content_none", "content"}

\* Python values: None, a str, and the values json.loads gives (a list holding
\* nothing or one value, a dict, a number)
PyNone == <<"None">>
PyStr(text) == <<"str", text>>
PyList(items) == <<"list", items>>
PyDict == <<"dict">>
PyNumber == <<"number">>
JSONDecodeError == <<"JSONDecodeError">>

RECURSIVE lstrip(_, _)
\* str.lstrip(chars): drops the leading characters that are in the set chars
lstrip(s, chars) ==
    IF s # <<>> /\ Head(s) \in chars THEN lstrip(Tail(s), chars) ELSE s

RECURSIVE rstrip(_, _)
\* str.rstrip(chars): drops the trailing characters that are in the set chars
rstrip(s, chars) ==
    IF s # <<>> /\ s[Len(s)] \in chars THEN rstrip(SubSeq(s, 1, Len(s) - 1), chars) ELSE s

\* str.strip(): drops leading and trailing white space
strip(s) == rstrip(lstrip(s, {" "}), {" "})

\* content.strip().lstrip(<three backticks>json).rstrip(<three backticks>).strip()
clean(content) == strip(rstrip(lstrip(strip(content), {"fence", "j"}), {"fence"}))

RECURSIVE without_space(_)
\* the tokens of a text without the white space between them
without_space(s) ==
    IF s = <<>> THEN <<>>
    ELSE IF Head(s) = " " THEN without_space(Tail(s))
    ELSE <<Head(s)>> \o without_space(Tail(s))

RECURSIVE parse_value(_)
\* the JSON value a sequence of tokens without white space denotes
parse_value(s) ==
    IF s = <<"1">> THEN PyNumber
    ELSE IF s = <<"{", "}">> THEN PyDict
    ELSE IF Len(s) >= 2 /\ s[1] = "[" /\ s[Len(s)] = "]"
      THEN LET inner == SubSeq(s, 2, Len(s) - 1)
           IN IF inner = <<>> THEN PyList(<<>>)
              ELSE LET v == parse_value(inner)
                   IN IF v[1] = "JSONDecodeError" THEN JSONDecodeError
                      ELSE PyList(<<v>>)
    ELSE JSONDecodeError

\* json.loads(text): the value, or JSONDecodeError
json_loads(text) == parse_value(without_space(text))

\* send_prompt that does not catch an unexpected exception of the API call
send_prompt_uncaught(api, content) ==
    IF api \in {"RateLimitError", "APIError"} THEN PyNone
    ELSE IF api = "Exception" THEN <<"raise", "Exception">>
    ELSE IF api = "content_none" THEN PyNone
    ELSE
      LET cleaned == clean(content)
      IN IF cleaned # <<>> /\ cleaned[1] \in {"{", "["}
           THEN IF json_loads(cleaned)[1] = "JSONDecodeError"
                  THEN PyStr(cleaned) ELSE json_loads(cleaned)
           ELSE PyStr(cleaned)

\* send_prompt(client, prompt, system_message) with retries = 1: every exception of
\* the call (and the AttributeError of None.strip()) ends in `return None`
send_prompt(api, content) ==
    IF api \in {"RateLimitError", "APIError", "Exception"} THEN PyNone
    ELSE IF api = "content_none" THEN PyNone
    ELSE
      LET cleaned == clean(content)
      IN IF cleaned # <<>> /\ cleaned[1] \in {"{", "["}
           THEN IF json_loads(cleaned)[1] = "JSONDecodeError"
                  THEN PyStr(cleaned) ELSE json_loads(cleaned)
           ELSE PyStr(cleaned)

AEIdle ==
    /\ ae_api = "content_none"
    /\ ae_content = <<>>
    /\ ae_pc = "start"
    /\ ae_extract = <<>>
    /\ ae_result = <<>>

AEInit ==
    /\ ae_api \in ApiOutcomes
    /\ ae_content \in IF ae_api = "content" THEN Contents ELSE {<<>>}
    /\ ae_pc = "start"
    /\ ae_extract = <<>>
    /\ ae_result = <<>>

\* extract = send_prompt(client=openai_client, prompt=prompt, system_message=...)
ae_send_prompt ==
    /\ component = "about_extract"
    /\ ae_pc = "start"
    /\ LET extract == send_prompt(ae_api, ae_content)
       IN IF extract[1] = "raise"
            THEN /\ ae_pc' = "raised"
                 /\ UNCHANGED ae_extract
            ELSE /\ ae_pc' = "return"
                 /\ ae_extract' = extract
    /\ UNCHANGED <<ae_api, ae_content, ae_result>>

\* return extract if isinstance(extract, list) else []
ae_return ==
    /\ component = "about_extract"
    /\ ae_pc = "return"
    /\ ae_result' = IF ae_extract[1] = "list" THEN ae_extract ELSE PyList(<<>>)
    /\ ae_pc' = "returned"
    /\ UNCHANGED <<ae_api, ae_content, ae_extract>>

AENext ==
    \/ ae_send_prompt /\ UNCHANGED aeOthers
    \/ ae_return /\ UNCHANGED aeOthers

(***************************************************************************)
(* resume-parser: the photo fields of extract_profile_from_resume          *)
(* (_ask_openai_with_images, _extract_best_profile_photo, _attach_photo)   *)
(***************************************************************************)
\* A string is the sequence of its parts; <<>> is the empty string.
EmptyStr == <<>>

\* the head-shots the local pipeline may find, and strings the model may send
LocalPhotos == {<<"LOCAL_A">>, <<"LOCAL_B">>}
ModelStrings == {EmptyStr, <<"MODEL">>, <<"LOCAL_A">>}

\* A Python dict of the profile reply: keys are the keys it has; the field of a key
\* it does not have is not looked at. profile is a value with its own kind.
ProfileValue(kind, keys, photo) == [kind |-> kind, keys |-> keys, photo_base64 |-> photo]

NoProfile == ProfileValue("none", {}, EmptyStr)

ProfileValues ==
    {NoProfile, ProfileValue("str", {}, EmptyStr), ProfileValue("dict", {}, EmptyStr)}
        \cup {ProfileValue("dict", {"photo_base64"}, s) : s \in ModelStrings}

Dict(keys, photo, url, profile) ==
    [keys |-> keys, photo_base64 |-> photo, avatarPreviewUrl |-> url, profile |-> profile]

\* {}
EmptyDict == Dict({}, EmptyStr, EmptyStr, NoProfile)

\* the JSON objects the model may reply
ReplyDicts ==
    {Dict(keys, IF "photo_base64" \in keys THEN photo ELSE EmptyStr,
          IF "avatarPreviewUrl" \in keys THEN <<"MODEL_URL">> ELSE EmptyStr,
          IF "profile" \in keys THEN profile ELSE NoProfile) :
        keys \in SUBSET {"photo_base64", "avatarPreviewUrl", "profile"},
        photo \in ModelStrings, profile \in ProfileValues}

\* what the vision call yields: it raises, the content holds no JSON object, the
\* content is JSON but no object, or the content is a JSON object
VisionReplies ==
    {[kind |-> k, dict |-> EmptyDict] : k \in {"api_error", "no_json", "not_an_object"}}
        \cup {[kind |-> "object", dict |-> d] : d \in ReplyDicts}

\* _ask_openai_with_images(file_bytes, suffix) when the call yields `reply`: the
\* parsed object with its photo_base64 fields blanked, {} on any exception
ask_openai_with_images(reply) ==
    IF reply.kind # "object" THEN EmptyDict
    ELSE
      LET result == reply.dict
          blanked == IF "photo_base64" \in result.keys
                       THEN [result EXCEPT !.photo_base64 = EmptyStr] ELSE result
      IN IF /\ "profile" \in blanked.keys
            /\ blanked.profile.kind = "dict"
            /\ "photo_base64" \in blanked.profile.keys
           THEN [blanked EXCEPT !.profile.photo_base64 = EmptyStr]
           ELSE blanked

\* _extract_best_profile_photo(file_bytes): the head-shot found in the file or None
extract_best_profile_photo == ph_headshot

\* the fields _attach_photo makes sure exist
attach_fields == {"photo_base64", "experiences", "educations", "languages",
                  "certifications", "publications", "awards"}

\* _attach_photo that leaves the fields the object already has as they are
attach_photo_if_missing(obj, photo) ==
    LET photo_to_set == IF photo # <<>> /\ photo[1] # EmptyStr THEN photo[1] ELSE EmptyStr
        url == IF photo_to_set # EmptyStr
                 THEN <<"data:image/png;base64,">> \o photo_to_set ELSE EmptyStr
    IN [obj EXCEPT
          !.keys = @ \cup attach_fields \cup {"avatarPreviewUrl"},
          !.photo_base64 = IF "photo_base64" \in obj.keys THEN @ ELSE photo_to_set,
          !.avatarPreviewUrl = IF "avatarPreviewUrl" \in obj.keys THEN @ ELSE url]

\* _attach_photo(obj, photo_b64): the object after the call
attach_photo(obj, photo) ==
    LET photo_to_set == IF photo # <<>> /\ photo[1] # EmptyStr THEN photo[1] ELSE EmptyStr
        url == IF photo_to_set # EmptyStr
                 THEN <<"data:image/png;base64,">> \o photo_to_set ELSE EmptyStr
        with_top == [obj EXCEPT
                       !.keys = @ \cup attach_fields \cup {"avatarPreviewUrl"},
                       !.photo_base64 = photo_to_set,
                       !.avatarPreviewUrl = url]
    IN IF "profile" \in obj.keys /\ obj.profile.kind = "dict"
         THEN [with_top EXCEPT !.profile.keys = @ \cup {"photo_base64"},
                               !.profile.photo_base64 = photo_to_set]
         ELSE with_top

PHIdle ==
    /\ ph_reply = [kind |-> "api_error", dict |-> EmptyDict]
    /\ ph_headshot = <<>>
    /\ ph_pc = "downloaded"
    /\ raw_openai_data = EmptyDict
    /\ photo_b64 = <<>>

\* the file has been downloaded; raw_openai_data = {}
PHInit ==
    /\ ph_reply \in VisionReplies
    /\ ph_headshot \in {<<>>} \cup {<<s>> : s \in LocalPhotos}
    /\ ph_pc = "downloaded"
    /\ raw_openai_data = EmptyDict
    /\ photo_b64 = <<>>

\* raw_openai_data = _ask_openai_with_images(file_bytes, suffix)
ph_ask_openai ==
    /\ component = "profile_photo"
    /\ ph_pc = "downloaded"
    /\ raw_openai_data' = ask_openai_with_images(ph_reply)
    /\ ph_pc' = "asked"
    /\ UNCHANGED <<ph_reply, ph_headshot, photo_b64>>

\* photo_b64 = _extract_best_profile_photo(file_bytes)
ph_extract_photo ==
    /\ component = "profile_photo"
    /\ ph_pc = "asked"
    /\ photo_b64' = extract_best_profile_photo
    /\ ph_pc' = "extracted"
    /\ UNCHANGED <<ph_reply, ph_headshot, raw_openai_data>>

\* _attach_photo(raw_openai_data, photo_b64)
ph_attach_photo ==
    /\ component = "profile_photo"
    /\ ph_pc = "extracted"
    /\ raw_openai_data' = attach_photo(raw_openai_data, photo_b64)
    /\ ph_pc' = "attached"
    /\ UNCHANGED <<ph_reply, ph_headshot, photo_b64>>

\* return None, raw_openai_data
ph_return ==
    /\ component = "profile_photo"
    /\ ph_pc = "attached"
    /\ ph_pc' = "returned"
    /\ UNCHANGED <<ph_reply, ph_headshot, raw_openai_data, photo_b64>>

PHNext ==
    \/ ph_ask_openai /\ UNCHANGED phOthers
    \/ ph_extract_photo /\ UNCHANGED phOthers
    \/ ph_attach_photo /\ UNCHANGED phOthers
    \/ ph_return /\ UNCHANGED phOthers

(***************************************************************************)
(* Specifications: one per component, and their union                      *)
(***************************************************************************)
InitCB == component = "circuit_breaker" /\ CBInit /\ HCIdle /\ EnvIdle /\ ExIdle /\ ApiIdle /\ RunIdle /\ RPIdle /\ ENIdle /\ AEIdle /\ PHIdle

SpecCB == InitCB /\ [][CBNext]_vars

InitHC == component = "health_check" /\ HCIdle /\ CBIdle /\ EnvIdle /\ ExIdle /\ ApiIdle /\ RunIdle /\ RPIdle /\ ENIdle /\ AEIdle /\ PHIdle

SpecHC == InitHC /\ [][HCNext]_vars

InitEnv == component = "environment" /\ EnvInit /\ CBIdle /\ HCIdle /\ ExIdle /\ ApiIdle /\ RunIdle /\ RPIdle /\ ENIdle /\ AEIdle /\ PHIdle

SpecEnv == InitEnv /\ [][EnvNext]_vars

InitEx == component = "job_extractor" /\ ExInit /\ CBIdle /\ HCIdle /\ EnvIdle /\ ApiIdle /\ RunIdle /\ RPIdle /\ ENIdle /\ AEIdle /\ PHIdle

SpecEx == InitEx /\ [][ExNext]_vars

InitApi ==
    /\ component = "job_matcher_api"
    /\ ApiInit /\ CBIdle /\ HCIdle /\ EnvIdle /\ ExIdle /\ RunIdle /\ RPIdle /\ ENIdle /\ AEIdle /\ PHIdle

SpecApi == InitApi /\ [][ApiNext]_vars

InitRuns ==
    /\ component = "job_matcher_runs"
    /\ RunInit /\ CBIdle /\ HCIdle /\ EnvIdle /\ ExIdle /\ ApiIdle /\ RPIdle /\ ENIdle /\ AEIdle /\ PHIdle

SpecRuns == InitRuns /\ [][RunNext]_vars

InitRP ==
    /\ component = "resume_parser"
    /\ RPInit /\ CBIdle /\ HCIdle /\ EnvIdle /\ ExIdle /\ ApiIdle /\ RunIdle /\ ENIdle /\ AEIdle /\ PHIdle

SpecRP == InitRP /\ [][RPNext]_vars

InitEN ==
    /\ component = "job_enricher"
    /\ ENIdle /\ CBIdle /\ HCIdle /\ EnvIdle /\ ExIdle /\ ApiIdle /\ RunIdle /\ RPIdle /\ AEIdle /\ PHIdle

SpecEN == InitEN /\ [][ENNext]_vars

InitAE ==
    /\ component = "about_extract"
    /\ AEInit /\ CBIdle /\ HCIdle /\ EnvIdle /\ ExIdle /\ ApiIdle /\ RunIdle /\ RPIdle /\ ENIdle /\ PHIdle

SpecAE == InitAE /\ [][AENext]_vars

InitPH ==
    /\ component = "profile_photo"
    /\ PHInit /\ CBIdle /\ HCIdle /\ EnvIdle /\ ExIdle /\ ApiIdle /\ RunIdle /\ RPIdle /\ ENIdle /\ AEIdle

SpecPH == InitPH /\ [][PHNext]_vars

Init == InitCB \/ InitHC \/ InitEnv \/ InitEx \/ InitApi \/ InitRuns \/ InitRP \/ InitEN \/ InitAE \/ InitPH

Next == CBNext \/ HCNext \/ EnvNext \/ ExNext \/ ApiNext \/ RunNext \/ RPNext \/ ENNext \/ AENext \/ PHNext

Spec == Init /\ [][Next]_vars

(***************************************************************************)
(* Claims about CircuitBreaker                                             *)
(***************************************************************************)

\* C3: in HALF_OPEN one request is let through as a trial; while a trial call is
\* executing the wrapped function no other call admitted in HALF_OPEN executes it.
C3_HalfOpenSingleTrial ==
    Cardinality({c \in Callers : cb_pc[c] = "func" /\ cb_trial[c]}) <= 1

\* the breaker is OPEN and less than recovery_timeout has elapsed since the last failure
OpenCooling ==
    /\ cb_state = OPEN
    /\ cb_last_failure_time # <<>>
    /\ now - cb_last_failure_time[1] < recovery_timeout

\* C4: while OPEN and still cooling, every call() raises CircuitBreakerError at once,
\* does not start the wrapped function and leaves failure_count, last_failure_time
\* and state as they were.
C4_OpenRejects ==
    [][\A c \in Callers :
          (OpenCooling /\ call(c)) =>
              /\ cb_result'[c] = "CircuitBreakerError"
              /\ cb_pc'[c] = "idle"
              /\ UNCHANGED <<cb_failure_count, cb_last_failure_time, cb_state>>]_vars

C4_Witness ==
    /\ OpenCooling
    /\ \E c \in Callers : cb_result[c] = "CircuitBreakerError" /\ cb_pc[c] = "idle"

\* C5: the breaker has left CLOSED exactly when failure_threshold expected failures
\* have been recorded in a row with no success or reset() in between; with fewer it
\* is CLOSED and a call() reaches the wrapped function.
C5_OpensAtThreshold ==
    /\ [](cb_state \in {OPEN, HALF_OPEN} <=> cb_streak >= failure_threshold)
    /\ [][\A c \in Callers :
            (cb_streak < failure_threshold /\ call(c)) => cb_pc'[c] = "func"]_vars

C5_Witness ==
    /\ failure_threshold > 1
    /\ cb_state = OPEN
    /\ cb_streak = failure_threshold
    /\ \E c \in Callers : cb_result[c] = "expected_exception"

(***************************************************************************)
(* Claims about GET /health                                                *)
(***************************************************************************)
RECURSIVE NamesWhere(_, _, _)
\* the names of the registered checks whose outcome is in `which`, in order
NamesWhere(names, outcomes, which) ==
    IF names = <<>> THEN <<>>
    ELSE LET rest == NamesWhere(Tail(names), Tail(outcomes), which) IN
         IF Head(outcomes) \in which THEN <<Head(names)>> \o rest ELSE rest

EntryNames(entries) == [i \in 1..Len(entries) |-> entries[i].name]

\* C10: with at least one check registered, GET /health answers healthy/200 exactly
\* when every check passed, degraded/200 when at least half but not all passed,
\* unhealthy/503 when fewer than half passed; a check that raises counts as failed,
\* and every registered check is run once and reported once.
C10_HealthStatus ==
    (hc_response # <<>> /\ Len(health_checks) >= 1) =>
        LET r == hc_response[1]
            n == Len(health_checks)
            p == Len(NamesWhere(health_checks, hc_outcomes, {"healthy"})) IN
        /\ Len(hc_outcomes) = n
        /\ EntryNames(r.passed) = NamesWhere(health_checks, hc_outcomes, {"healthy"})
        /\ EntryNames(r.failed) =
               NamesWhere(health_checks, hc_outcomes, {"unhealthy", "raises"})
        /\ (r.status = "healthy") <=> (p = n)
        /\ (r.status = "degraded") <=> (2 * p >= n /\ p < n)
        /\ (r.status = "unhealthy") <=> (2 * p < n)
        /\ r.status \in {"healthy", "degraded"} => r.status_code = 200
        /\ r.status = "unhealthy" => r.status_code = 503

\* a response of 'degraded' with exactly half of the checks passing, one having raised
C10_Witness ==
    /\ hc_response # <<>>
    /\ Len(health_checks) = 2
    /\ hc_response[1].status = "degraded"
    /\ \E i \in 1..Len(hc_outcomes) : hc_outcomes[i] = "raises"

(***************************************************************************)
(* Claims about get_environment_config                                     *)
(***************************************************************************)

\* C7: a request with a valid X-Environment header and no explicit parameter gets
\* the configuration of the environment its header names, whatever the same worker
\* thread handled before.
C7_HeaderDecides ==
    (/\ env_call # <<>>
     /\ env_call[1].has_request_context
     /\ env_call[1].environment = <<>>
     /\ lower(env_call[1].header) \in valid_envs)
        => env_call[1].config.environment = lower(env_call[1].header)

\* the environment the stated precedence gives: a valid explicit parameter, else a
\* context variable set to a non-default value, else a valid header of the current
\* request, else a valid DEFAULT_ENVIRONMENT, else production
Precedence(c) ==
    IF c.environment # <<>> /\ lower(c.environment[1]) \in valid_envs
      THEN lower(c.environment[1])
    ELSE IF c.context # "production" THEN c.context
    ELSE IF c.has_request_context /\ lower(c.header) \in valid_envs THEN lower(c.header)
    ELSE IF DEFAULT_ENVIRONMENT # <<>> /\ lower(DEFAULT_ENVIRONMENT[1]) \in valid_envs
      THEN lower(DEFAULT_ENVIRONMENT[1])
    ELSE "production"

\* C8: get_environment_config follows that precedence, and the 'environment' of the
\* configuration it returns is always development, staging or production.
C8_Precedence ==
    env_call # <<>> =>
        /\ env_call[1].config.environment = Precedence(env_call[1])
        /\ env_call[1].config = configs(Precedence(env_call[1]))
        /\ env_call[1].config.environment \in valid_envs

\* a call where an invalid parameter and a non-default context variable meet a valid
\* header that names another environment: the context variable wins
C8_Witness ==
    /\ env_call # <<>>
    /\ env_call[1].environment = <<"qa">>
    /\ env_call[1].context = "staging"
    /\ env_call[1].has_request_context
    /\ env_call[1].header = "development"
    /\ env_call[1].config.environment = "staging"

(***************************************************************************)
(* Claims about POST /extract-from-file                                    *)
(***************************************************************************)

\* C6: a request whose file could not be downloaded (download_file returned None)
\* is answered with HTTP 404.
C6_MissingFileIs404 ==
    (ex_pc = "idle" /\ ex_status # 0 /\ ex_blob = "None") => ex_status = 404

(***************************************************************************)
(* Claims about POST /match and POST /match-user                           *)
(***************************************************************************)

C13_MissingJobIdIs400 ==
    \A r \in Requests :
        (/\ api_pc[r] = "done"
         /\ api_request[r].endpoint = "/match"
         /\ api_request[r].body \in {"null", "no_id", "number"})
        => /\ api_response[r] = 400
           /\ api_error[r] = "job_id is required"
           /\ api_queries[r] = 0
           /\ api_threads[r] = <<>>

\* C14: POST /match with no payload at all (no body, no JSON content type) is
\* answered 400 with an 'error' field.
C14_NoPayloadIs400 ==
    \A r \in Requests :
        (/\ api_pc[r] = "done"
         /\ api_request[r].endpoint = "/match"
         /\ api_request[r].body = "not_json")
        => /\ api_response[r] = 400
           /\ api_error[r] # ""

(***************************************************************************)
(* Claims about the background matching runs                               *)
(***************************************************************************)

\* C1: every run of match_user_to_jobs_async that set matching_status to
\* 'processing' has set it to 'finished' when it returns, on every path (the status
\* updates themselves succeeding).
C1_ProcessingThenFinished ==
    \A r \in Runs :
        (/\ run[r].kind = "user"
         /\ run[r].pc = "done"
         /\ run[r].set_processing
         /\ run[r].updates_ok) => run[r].set_finished

\* C9: with overwrite_existing_matches false, a run whose existence query answered
\* neither scores a pair that has a row in the match table nor writes that row
\* again, also when another run covers the same pair at the same time.
C9_ExistingRowUntouched ==
    [][\A r \in Runs :
          (/\ ~run[r].overwrite
           /\ ~run[r].query_failed
           /\ run[r].pc \in {"score", "store"}
           /\ match_table[pair(r)] > 0)
              => /\ ~score(r)
                 /\ ~(store_match_result(r) /\ match_table' # match_table)]_vars

(***************************************************************************)
(* Claims about POST /user-profile                                         *)
(***************************************************************************)

\* C11: POST /user-profile answers 400 when the JSON object is empty or has no
\* file_path, 404 when the file is not found in storage, 400 when the extraction
\* raises ValueError, 200 when the file was found in storage and processed.
C11_ProfileStatuses ==
    (rp_pc = "idle" /\ rp_status # 0) =>
        /\ (rp_request.body \in {"empty", "no_file_path"}) => rp_status = 400
        /\ (rp_request.body = "with_file_path" /\ rp_request.file_path = <<>>)
              => rp_status = 400
        /\ rp_outcome = "ValueError" => rp_status = 400
        /\ (rp_request.file_path # <<>> /\ rp_url /\ rp_key)
              => IF download_resume(rp_request.file_path) = "None"
                   THEN rp_status = 404
                   ELSE rp_status \in {200, 500}
        /\ rp_status = 200 => rp_blob = "BytesIO"

(***************************************************************************)
(* Claims about POST /enrich                                               *)
(***************************************************************************)

\* C12: a 200 response of POST /enrich holds every key of the request payload; a
\* reply of the model that omits a key of the request never leads to 200; the
\* payload passed to enrich_job_data is not changed while the request is handled.
C12_EnrichedKeepsKeys ==
    /\ [](en_status = 200 =>
            /\ en_body # <<>> /\ en_request.keys \subseteq en_body[1]
            /\ en_reply # <<>> /\ en_request.keys \subseteq en_reply[1].keys)
    /\ [][en_pc # "idle" => en_request' = en_request]_vars

\* a 200 response to a payload with an optional key, the reply adding one more key
C12_Witness ==
    /\ en_pc = "idle"
    /\ en_status = 200
    /\ "perks" \in en_request.keys
    /\ "highlightedBenefits" \notin en_request.keys
    /\ "highlightedBenefits" \in en_body[1]
    /\ en_validated = <<en_request>>

(***************************************************************************)
(* Claims about about_extract                                              *)
(***************************************************************************)

LocalPhoto == IF ph_headshot # <<>> THEN ph_headshot[1] ELSE EmptyStr

\* C16: in the returned profile photo_base64 is the locally extracted head-shot or
\* the empty string, avatarPreviewUrl is 'data:image/png;base64,' followed by it
\* when there is one and empty otherwise, and profile.photo_base64 equals
\* photo_base64 when profile is an object, whatever the model replied.
C16_PhotoFieldsAreLocal ==
    ph_pc = "returned" =>
        /\ {"photo_base64", "avatarPreviewUrl"} \subseteq raw_openai_data.keys
        /\ raw_openai_data.photo_base64 = LocalPhoto
        /\ raw_openai_data.avatarPreviewUrl =
              IF ph_headshot # <<>>
                THEN <<"data:image/png;base64,">> \o LocalPhoto ELSE EmptyStr
        /\ ("profile" \in raw_openai_data.keys /\ raw_openai_data.profile.kind = "dict")
              => /\ "photo_base64" \in raw_openai_data.profile.keys
                 /\ raw_openai_data.profile.photo_base64 = raw_openai_data.photo_base64

\* a returned profile with a local head-shot while the model sent its own photo
\* fields, at the top level and inside profile
C16_Witness ==
    /\ ph_pc = "returned"
    /\ ph_headshot = <<<<"LOCAL_B">>>>
    /\ ph_reply.kind = "object"
    /\ ph_reply.dict.keys = {"photo_base64", "avatarPreviewUrl", "profile"}
    /\ ph_reply.dict.photo_base64 = <<"MODEL">>
    /\ ph_reply.dict.profile.kind = "dict"
    /\ ph_reply.dict.profile.photo_base64 = <<"MODEL">>
    /\ raw_openai_data.profile.photo_base64 = <<"LOCAL_B">>

====
